---- MODULE Spec2Model ----
(***************************************************************************)
(* Model of the airbnb-job scraper (main.go): the pagination loop of main  *)
(* with its title filter, and sendDailyJobEmail, which composes the mail   *)
(* message and submits it once to the SMTP relay.                          *)
(*                                                                         *)
(* Go strings are modelled as sequences of one-character strings, so that  *)
(* strings.Contains, strings.TrimSpace and fmt.Sprintf are computed on the *)
(* characters.                                                             *)
(***************************************************************************)
EXTENDS Integers, Sequences, FiniteSets, TLC

VARIABLES
    pc,          \* the statement main or sendDailyJobEmail is at
    page,        \* main: page (line 26)
    url,         \* main: url (line 28)
    resp,        \* main: resp (line 31)
    jobItems,    \* main: jobItems (line 48)
    idx,         \* main: the item the Each callback of line 54 is at
    allJobs,     \* main: allJobs (line 24)
    deferred,    \* main: the deferred resp.Body.Close() calls (line 35)
    openBodies,  \* the pages whose response body is open
    requested,   \* the URLs given to http.Get so far, in order
    hist,        \* per request: page, outcome, items served, allJobs before
    sendCalls,   \* number of calls of sendDailyJobEmail
    handed,      \* the lists sendDailyJobEmail was called with
    jobPostings, \* sendDailyJobEmail: jobPostings (line 99)
    from,        \* sendDailyJobEmail: from (line 100)
    to,          \* sendDailyJobEmail: to (line 101)
    body,        \* sendDailyJobEmail: body.String() (line 108)
    message,     \* sendDailyJobEmail: message (line 125)
    attempts,    \* the calls of smtp.SendMail (line 132)
    err,         \* sendDailyJobEmail: err (line 132)
    result       \* what sendDailyJobEmail returned

vars == <<pc, page, url, resp, jobItems, idx, allJobs, deferred, openBodies,
          requested, hist, sendCalls, handed, jobPostings, from, to, body,
          message, attempts, err, result>>

mainVars == <<page, url, resp, jobItems, idx, allJobs, deferred, openBodies,
              requested, hist>>

mailVars == <<jobPostings, from, to, body, message, attempts, err, result>>

-----------------------------------------------------------------------------
(* Bounds of the model.                                                    *)

\* the listing site serves at most MaxPages pages with a full item count
MaxPages == 3

\* largest raw item count of one page
MaxItems == 11

\* longest posting list given directly to sendDailyJobEmail
MaxPostings == 2

\* number of fragments a title is assembled from for the filter check
MaxFrags == 2

-----------------------------------------------------------------------------
(* String helpers: the library functions main.go calls.                    *)

IsPrefixAt(s, sub, k) ==
    /\ k + Len(sub) - 1 <= Len(s)
    /\ \A j \in 1..Len(sub) : s[k + j - 1] = sub[j]

\* strings.Index, 1-based: the first position at which sub occurs in s;
\* 0 stands for Go's -1
Index(s, sub) ==
    LET hits == {k \in 1..(Len(s) + 1) : IsPrefixAt(s, sub, k)}
    IN  IF hits = {} THEN 0
        ELSE CHOOSE k \in hits : \A j \in hits : k <= j

\* strings.Contains
Contains(s, sub) == Index(s, sub) > 0

WhiteSpace == {" ", "\t", "\n", "\r"}

RECURSIVE TrimLeft(_)
TrimLeft(s) ==
    IF s # <<>> /\ Head(s) \in WhiteSpace THEN TrimLeft(Tail(s)) ELSE s

RECURSIVE TrimRight(_)
TrimRight(s) ==
    IF s # <<>> /\ s[Len(s)] \in WhiteSpace
    THEN TrimRight(SubSeq(s, 1, Len(s) - 1)) ELSE s

\* strings.TrimSpace
TrimSpace(s) == TrimRight(TrimLeft(s))

Digit(d) == <<"0","1","2","3","4","5","6","7","8","9">>[d + 1]

RECURSIVE Itoa(_)
\* the %d verb of fmt.Sprintf for a non-negative int
Itoa(n) == IF n < 10 THEN <<Digit(n)>> ELSE Itoa(n \div 10) \o <<Digit(n % 10)>>

-----------------------------------------------------------------------------
(* The listing site, as far as main observes it.                           *)

baseURL == <<"h","t","t","p","s",":","/","/","c","a","r","e","e","r","s",".","a","i","r","b","n","b",".","c","o","m","/","p","o","s","i","t","i","o","n","s","/","?","_","d","e","p","a","r","t","m","e","n","t","s","=","e","n","g","i","n","e","e","r","i","n","g","&","_","o","f","f","i","c","e","s","=","u","n","i","t","e","d","-","s","t","a","t","e","s","&","_","p","a","g","e","d","=">>

\* fmt.Sprintf("%s%d", baseURL, page)
PageURL(p) == baseURL \o Itoa(p)

StatusOK == 200

\* a listing item as found in the document: the text of its anchor and the
\* href attribute, which may be absent
Item(text, hasHref, href) == [text |-> text, hasHref |-> hasHref, href |-> href]

MixedPool ==
    << Item(<<" "," ","S","o","f","t","w","a","r","e"," ","E","n","g","i","n","e","e","r",","," ","P","a","y","m","e","n","t","s","\n">>, TRUE, <<"/","p","o","s","i","t","i","o","n","s","/","1","/">>),
       Item(<<"S","e","n","i","o","r"," ","S","o","f","t","w","a","r","e"," ","E","n","g","i","n","e","e","r">>, TRUE, <<"/","p","o","s","i","t","i","o","n","s","/","2","/">>),
       Item(<<"S","o","f","t","w","a","r","e"," ","E","n","g","i","n","e","e","r"," ","I","I">>, FALSE, <<>>),
       Item(<<"S","t","a","f","f"," ","S","o","f","t","w","a","r","e"," ","E","n","g","i","n","e","e","r",","," ","A","n","d","r","o","i","d">>, TRUE, <<"/","p","o","s","i","t","i","o","n","s","/","4","/">>),
       Item(<<"P","r","o","d","u","c","t"," ","M","a","n","a","g","e","r">>, TRUE, <<"/","p","o","s","i","t","i","o","n","s","/","5","/">>) >>

RejectedPool ==
    << Item(<<"S","r","."," ","S","o","f","t","w","a","r","e"," ","E","n","g","i","n","e","e","r">>, TRUE, <<"/","p","o","s","i","t","i","o","n","s","/","6","/">>),
       Item(<<"P","r","i","n","c","i","p","a","l"," ","S","o","f","t","w","a","r","e"," ","E","n","g","i","n","e","e","r">>, TRUE, <<"/","p","o","s","i","t","i","o","n","s","/","7","/">>),
       Item(<<"S","o","f","t","w","a","r","e"," ","E","n","g","i","n","e","e","r",","," ","i","O","S">>, TRUE, <<"/","p","o","s","i","t","i","o","n","s","/","8","/">>),
       Item(<<"s","o","f","t","w","a","r","e"," ","e","n","g","i","n","e","e","r">>, TRUE, <<"/","p","o","s","i","t","i","o","n","s","/","9","/">>) >>

PageKinds == {"mixed", "rejected"}

Pool(kind) == IF kind = "mixed" THEN MixedPool ELSE RejectedPool

\* the n items of a page of the given kind
PageItems(kind, n) ==
    [k \in 1..n |-> Pool(kind)[((k - 1) % Len(Pool(kind))) + 1]]

\* the raw item counts a page is served with: around the threshold of
\* line 80, and the largest
ItemCounts == {0, 1, 9, 10, MaxItems}

NoResp == [status |-> 0, parses |-> FALSE, items |-> <<>>]

\* what http.Get can give back for page p: a network error or a response
Responses(p) ==
    {[status |-> 500, parses |-> TRUE, items |-> <<>>],
     [status |-> 200, parses |-> FALSE, items |-> <<>>]}
    \cup {[status |-> 200, parses |-> TRUE, items |-> PageItems(kind, n)] :
            kind \in PageKinds,
            n \in {m \in ItemCounts : p < MaxPages \/ m < 10}}

-----------------------------------------------------------------------------
(* main: the decisions of the pagination loop.                             *)

\* lines 57-61: title and link of one item
Extract(item) ==
    [Title |-> TrimSpace(item.text),
     URL   |-> IF item.hasHref THEN item.href ELSE <<>>]

\* the filter without its last exclusion term
TitleFilterNoIOS(title) ==
    /\ Contains(title, <<"S","o","f","t","w","a","r","e"," ","E","n","g","i","n","e","e","r">>)
    /\ ~Contains(title, <<"S","e","n","i","o","r">>)
    /\ ~Contains(title, <<"S","t","a","f","f">>)
    /\ ~Contains(title, <<"S","r",".">>)
    /\ ~Contains(title, <<"P","r","i","n","c","i","p","a","l">>)
    /\ ~Contains(title, <<"A","n","d","r","o","i","d">>)

\* lines 65-71
TitleFilter(title) ==
    /\ Contains(title, <<"S","o","f","t","w","a","r","e"," ","E","n","g","i","n","e","e","r">>)
    /\ ~Contains(title, <<"S","e","n","i","o","r">>)
    /\ ~Contains(title, <<"S","t","a","f","f">>)
    /\ ~Contains(title, <<"S","r",".">>)
    /\ ~Contains(title, <<"P","r","i","n","c","i","p","a","l">>)
    /\ ~Contains(title, <<"A","n","d","r","o","i","d">>)
    /\ ~Contains(title, <<"i","O","S">>)

\* an append that skips a posting already in the list
AppendJobUnique(jobs, job) ==
    IF \E k \in 1..Len(jobs) : jobs[k] = job THEN jobs ELSE Append(jobs, job)

\* line 72
AppendJob(jobs, job) == Append(jobs, job)

\* a status check that lets every response through
StatusAcceptedAny(status) == status >= 0

\* line 37
StatusAccepted(status) == status = StatusOK

\* line 49
NoItems(items) == Len(items) = 0

\* an empty page skipped with continue instead of break
AfterEmptyPageContinue(p) == [pc |-> "get", page |-> p + 1]

\* line 51: where the loop goes after an empty page
AfterEmptyPage(p) == [pc |-> "report", page |-> p]

\* the threshold one too low: a page of 9 items is not the last
LastPageBelow9(items) == Len(items) < 9

\* the threshold one too high: a page of 10 items is the last
LastPageUpTo10(items) == Len(items) <= 10

\* line 80
LastPage(items) == Len(items) < 10

\* line 85
NextPage(p) == p + 1

-----------------------------------------------------------------------------
(* main: the steps.                                                        *)

HistEntry(p, outcome, items, before) ==
    [page |-> p, outcome |-> outcome, items |-> items, before |-> before]

\* lines 28-35: http.Get fails, or gives a response whose body is open and
\* whose Close is deferred to the return of main
Get ==
    /\ pc = "get"
    /\ page <= MaxPages
    /\ url' = PageURL(page)
    /\ requested' = Append(requested, PageURL(page))
    /\ \/ /\ resp' = NoResp
          /\ hist' = Append(hist, HistEntry(page, "neterr", <<>>, allJobs))
          /\ pc' = "fatal"
          /\ UNCHANGED <<deferred, openBodies>>
       \/ \E r \in Responses(page) :
             /\ resp' = r
             /\ hist' = Append(hist,
                   HistEntry(page,
                             IF r.status # StatusOK THEN "status"
                             ELSE IF ~r.parses THEN "parse" ELSE "ok",
                             r.items, allJobs))
             /\ openBodies' = openBodies \cup {page}
             /\ deferred' = <<page>> \o deferred
             /\ pc' = "status"
    /\ UNCHANGED <<page, jobItems, idx, allJobs, sendCalls, handed>>
    /\ UNCHANGED mailVars

\* lines 37-39
CheckStatus ==
    /\ pc = "status"
    /\ pc' = IF StatusAccepted(resp.status) THEN "parse" ELSE "fatal"
    /\ UNCHANGED <<mainVars, sendCalls, handed>>
    /\ UNCHANGED mailVars

\* lines 41-48
Parse ==
    /\ pc = "parse"
    /\ IF resp.parses
       THEN /\ jobItems' = resp.items
            /\ pc' = "empty"
       ELSE /\ pc' = "fatal"
            /\ UNCHANGED jobItems
    /\ UNCHANGED <<page, url, resp, idx, allJobs, deferred, openBodies,
                   requested, hist, sendCalls, handed>>
    /\ UNCHANGED mailVars

\* lines 49-52
CheckEmpty ==
    /\ pc = "empty"
    /\ IF NoItems(jobItems)
       THEN /\ pc' = AfterEmptyPage(page).pc
            /\ page' = AfterEmptyPage(page).page
            /\ UNCHANGED idx
       ELSE /\ pc' = "each"
            /\ idx' = 1
            /\ UNCHANGED page
    /\ UNCHANGED <<url, resp, jobItems, allJobs, deferred, openBodies,
                   requested, hist, sendCalls, handed>>
    /\ UNCHANGED mailVars

\* lines 54-77: one call of the Each callback, on item idx
EachItem ==
    /\ pc = "each"
    /\ idx <= Len(jobItems)
    /\ LET job == Extract(jobItems[idx])
       IN  allJobs' = IF TitleFilter(job.Title)
                      THEN AppendJob(allJobs, job) ELSE allJobs
    /\ idx' = idx + 1
    /\ UNCHANGED <<pc, page, url, resp, jobItems, deferred, openBodies,
                   requested, hist, sendCalls, handed>>
    /\ UNCHANGED mailVars

\* lines 79-85, reached when Each has visited every item
Threshold ==
    /\ pc = "each"
    /\ idx > Len(jobItems)
    /\ IF LastPage(jobItems)
       THEN /\ pc' = "report"
            /\ UNCHANGED page
       ELSE /\ pc' = "get"
            /\ page' = NextPage(page)
    /\ UNCHANGED <<url, resp, jobItems, idx, allJobs, deferred, openBodies,
                   requested, hist, sendCalls, handed>>
    /\ UNCHANGED mailVars

\* lines 88-94: print the result and call sendDailyJobEmail(allJobs)
CallSend ==
    /\ pc = "report"
    /\ jobPostings' = allJobs
    /\ handed' = Append(handed, allJobs)
    /\ sendCalls' = sendCalls + 1
    /\ pc' = "compose"
    /\ UNCHANGED mainVars
    /\ UNCHANGED <<from, to, body, message, attempts, err, result>>

-----------------------------------------------------------------------------
(* sendDailyJobEmail: the message.                                         *)

subject == <<"D","a","i","l","y"," ","J","o","b"," ","P","o","s","t","i","n","g","s">>

smtpHost == <<"s","m","t","p",".","g","m","a","i","l",".","c","o","m">>

smtpPort == <<"5","8","7">>

CRLF == <<"\r","\n">>

NoticeText == <<"N","o"," ","c","u","r","r","e","n","t"," ","j","o","b"," ","p","o","s","t","i","n","g","s"," ","f","o","u","n","d"," ","t","o","d","a","y",".">>

\* lines 110-114
Greeting(n) ==
    IF n = 0
    THEN <<"H","e","l","l","o",",","\n","\n","N","o"," ","c","u","r","r","e","n","t"," ","j","o","b"," ","p","o","s","t","i","n","g","s"," ","f","o","u","n","d"," ","t","o","d","a","y",".","\n">>
    ELSE <<"H","e","l","l","o",",","\n","\n","H","e","r","e"," ","a","r","e"," ","t","o","d","a","y","'","s"," ","m","i","d","l","e","v","e","l"," ","S","o","f","t","w","a","r","e"," ","E","n","g","i","n","e","e","r"," ","j","o","b"," ","p","o","s","t","i","n","g","s",":","\n","\n">>

\* the line in the format of the console listing of line 91
FormatLineParens(job) == <<"-"," ">> \o job.Title \o <<" ","(">> \o job.URL \o <<")","\n">>

\* line 117: fmt.Sprintf("- %s: %s\n", job.Title, job.URL)
FormatLine(job) == <<"-"," ">> \o job.Title \o <<":"," ">> \o job.URL \o <<"\n">>

RECURSIVE JobLines(_)
\* lines 116-118
JobLines(jobs) ==
    IF jobs = <<>> THEN <<>> ELSE FormatLine(Head(jobs)) \o JobLines(Tail(jobs))

Footer == <<"\n"," ","Y","o","u"," ","c","a","n"," ","f","i","n","d"," ","m","o","r","e"," ","j","o","b"," ","p","o","s","t","i","n","g","s"," ","a","t"," ","h","t","t","p","s",":","/","/","c","a","r","e","e","r","s",".","a","i","r","b","n","b",".","c","o","m","/","p","o","s","i","t","i","o","n","s","/","?","_","d","e","p","a","r","t","m","e","n","t","s","=","e","n","g","i","n","e","e","r","i","n","g","&","_","o","f","f","i","c","e","s","=","u","n","i","t","e","d","-","s","t","a","t","e","s","\n">>

Signature == <<"\n","B","e","s","t"," ","r","e","g","a","r","d","s",",","\n","Y","o","u","r"," ","J","o","b"," ","S","c","r","a","p","e","r">>

\* lines 108-122
Body(jobs) == Greeting(Len(jobs)) \o JobLines(jobs) \o Footer \o Signature

\* the message without the empty line after the headers
ComposeMessageNoBlankLine(f, t, s, b) ==
    <<"F","r","o","m",":"," ">> \o f \o CRLF \o <<"T","o",":"," ">> \o t \o CRLF
        \o <<"S","u","b","j","e","c","t",":"," ">> \o s \o CRLF \o b

\* lines 125-126
ComposeMessage(f, t, s, b) ==
    <<"F","r","o","m",":"," ">> \o f \o CRLF \o <<"T","o",":"," ">> \o t \o CRLF
        \o <<"S","u","b","j","e","c","t",":"," ">> \o s \o CRLF \o CRLF \o b

\* line 132: the recipient list given to smtp.SendMail
Recipients(t) == <<t>>

\* a return that swallows the error of smtp.SendMail
ReturnValueNil(e) == "nil"

\* lines 133-136
ReturnValue(e) == IF e # "nil" THEN e ELSE "nil"

\* the values os.Getenv can give for FROM_EMAIL and TO_EMAIL; empty when unset
Addresses == { <<>>, <<"s","c","r","a","p","e","r","@","e","x","a","m","p","l","e",".","c","o","m">>, <<"M","e",":"," ","<","m","e","@","e","x","a","m","p","l","e",".","o","r","g",">">> }

Envs == [FROM_EMAIL : Addresses, TO_EMAIL : Addresses]

\* the ways smtp.SendMail can fail
SendErrors == {"auth", "connection", "rejected"}

-----------------------------------------------------------------------------
(* sendDailyJobEmail: the steps.                                           *)

\* lines 100-126
Compose ==
    /\ pc = "compose"
    /\ \E e \in Envs :
          /\ from' = e.FROM_EMAIL
          /\ to' = e.TO_EMAIL
          /\ body' = Body(jobPostings)
          /\ message' = ComposeMessage(e.FROM_EMAIL, e.TO_EMAIL, subject,
                                       Body(jobPostings))
    /\ pc' = "sendmail"
    /\ UNCHANGED mainVars
    /\ UNCHANGED <<sendCalls, handed, jobPostings, attempts, err, result>>

\* lines 129-132: the one call of smtp.SendMail
SendMail ==
    /\ pc = "sendmail"
    /\ attempts' = Append(attempts,
                     [addr |-> smtpHost \o <<":">> \o smtpPort,
                      from |-> from,
                      rcpts |-> Recipients(to),
                      msg |-> message])
    /\ err' \in SendErrors \cup {"nil"}
    /\ pc' = "sent"
    /\ UNCHANGED mainVars
    /\ UNCHANGED <<sendCalls, handed, jobPostings, from, to, body,
                   message, result>>

\* lines 133-136
Return ==
    /\ pc = "sent"
    /\ result' = ReturnValue(err)
    /\ pc' = "returned"
    /\ UNCHANGED mainVars
    /\ UNCHANGED <<sendCalls, handed, jobPostings, from, to, body,
                   message, attempts, err>>

\* line 95: main drops the result and returns; the deferred Close calls of
\* line 35 run now
MainReturn ==
    /\ pc = "returned"
    /\ openBodies' = openBodies \ {deferred[k] : k \in 1..Len(deferred)}
    /\ deferred' = <<>>
    /\ pc' = "exit"
    /\ UNCHANGED <<page, url, resp, jobItems, idx, allJobs, requested, hist,
                   sendCalls, handed>>
    /\ UNCHANGED mailVars

-----------------------------------------------------------------------------
(* The program: one run of main.                                           *)

InitMain ==
    /\ page = 1
    /\ url = <<>>
    /\ resp = NoResp
    /\ jobItems = <<>>
    /\ idx = 0
    /\ allJobs = <<>>
    /\ deferred = <<>>
    /\ openBodies = {}
    /\ requested = <<>>
    /\ hist = <<>>

InitMailVars ==
    /\ jobPostings = <<>>
    /\ from = <<>>
    /\ to = <<>>
    /\ body = <<>>
    /\ message = <<>>
    /\ attempts = <<>>
    /\ err = "nil"
    /\ result = "none"

Init ==
    /\ pc = "get"
    /\ sendCalls = 0
    /\ handed = <<>>
    /\ InitMain
    /\ InitMailVars

Next ==
    \/ Get
    \/ CheckStatus
    \/ Parse
    \/ CheckEmpty
    \/ EachItem
    \/ Threshold
    \/ CallSend
    \/ Compose
    \/ SendMail
    \/ Return
    \/ MainReturn

Spec == Init /\ [][Next]_vars

-----------------------------------------------------------------------------
(* sendDailyJobEmail on its own, called with any short list of postings.   *)

SeqsUpTo(S, n) == UNION {[1..k -> S] : k \in 0..n}

PostingPool ==
    { [Title |-> <<"S","o","f","t","w","a","r","e"," ","E","n","g","i","n","e","e","r",","," ","P","a","y","m","e","n","t","s">>, URL |-> <<"/","p","o","s","i","t","i","o","n","s","/","1","/">>],
      [Title |-> <<"S","o","f","t","w","a","r","e"," ","E","n","g","i","n","e","e","r"," ","I","I">>, URL |-> <<>>],
      [Title |-> <<"S","o","f","t","w","a","r","e"," ","E","n","g","i","n","e","e","r",":"," ","S","e","a","r","c","h"," ","-"," ","I","n","f","r","a">>, URL |-> <<"h","t","t","p","s",":","/","/","c","a","r","e","e","r","s",".","a","i","r","b","n","b",".","c","o","m","/","p","o","s","i","t","i","o","n","s","/","3","/">>] }

InitMail ==
    /\ pc = "compose"
    /\ sendCalls = 1
    /\ jobPostings \in SeqsUpTo(PostingPool, MaxPostings)
    /\ handed = <<jobPostings>>
    /\ InitMain
    /\ from = <<>>
    /\ to = <<>>
    /\ body = <<>>
    /\ message = <<>>
    /\ attempts = <<>>
    /\ err = "nil"
    /\ result = "none"

NextMail ==
    \/ Compose
    \/ SendMail
    \/ Return

SpecMail == InitMail /\ [][NextMail]_vars

-----------------------------------------------------------------------------
(* The Each callback on its own, on one item with any assembled title.     *)

Frags ==
    << <<"S","o","f","t","w","a","r","e"," ","E","n","g","i","n","e","e","r">>, <<"S","e","n","i","o","r">>, <<"S","t","a","f","f">>, <<"S","r">>, <<".">>,
       <<"P","r","i","n","c","i","p","a","l">>, <<"A","n","d","r","o","i","d">>, <<"i","O","S">>, <<"s","o","f","t","w","a","r","e"," ","e","n","g","i","n","e","e","r">>,
       <<"S","o","f","t","w","a","r","e">>, <<" ","E","n","g","i","n","e","e","r">>, <<","," ","P","a","y","m","e","n","t","s">>, <<"I","O","S">>, <<" ">> >>

RECURSIVE Flatten(_)
Flatten(ss) == IF ss = <<>> THEN <<>> ELSE Head(ss) \o Flatten(Tail(ss))

Titles ==
    {Flatten([k \in 1..Len(fs) |-> Frags[fs[k]]]) :
        fs \in SeqsUpTo(1..Len(Frags), MaxFrags)}

InitFilter ==
    /\ pc = "each"
    /\ sendCalls = 0
    /\ handed = <<>>
    /\ page = 1
    /\ url = PageURL(1)
    /\ \E text \in Titles, hasHref \in BOOLEAN :
          /\ jobItems = <<Item(text, hasHref,
                              IF hasHref THEN <<"/","p","o","s","i","t","i","o","n","s","/","1","/">> ELSE <<>>)>>
          /\ resp = [status |-> 200, parses |-> TRUE, items |-> jobItems]
          /\ hist = <<HistEntry(1, "ok", jobItems, <<>>)>>
    /\ idx = 1
    /\ allJobs = <<>>
    /\ deferred = <<1>>
    /\ openBodies = {1}
    /\ requested = <<PageURL(1)>>
    /\ InitMailVars

NextFilter == EachItem

SpecFilter == InitFilter /\ [][NextFilter]_vars

-----------------------------------------------------------------------------
(* Vocabulary of the properties, stated apart from the code's operators.   *)

\* term occurs in t as a contiguous run of characters
HasSubstring(t, term) ==
    \E a \in 0..Len(t) :
        /\ a + Len(term) <= Len(t)
        /\ \A j \in 1..Len(term) : t[a + j] = term[j]

ExclusionTerms ==
    { <<"S","e","n","i","o","r">>, <<"S","t","a","f","f">>, <<"S","r",".">>, <<"P","r","i","n","c","i","p","a","l">>, <<"A","n","d","r","o","i","d">>, <<"i","O","S">> }

Acceptable(t) ==
    /\ HasSubstring(t, <<"S","o","f","t","w","a","r","e"," ","E","n","g","i","n","e","e","r">>)
    /\ \A x \in ExclusionTerms : ~HasSubstring(t, x)

\* title and link of a listing item, as the posting is to carry them
PostingOf(item) ==
    [Title |-> TrimSpace(item.text),
     URL   |-> IF item.hasHref THEN item.href ELSE <<>>]

RECURSIVE AcceptedOf(_)
\* the postings of the acceptable items, in on-page order
AcceptedOf(items) ==
    IF items = <<>> THEN <<>>
    ELSE IF Acceptable(PostingOf(Head(items)).Title)
         THEN <<PostingOf(Head(items))>> \o AcceptedOf(Tail(items))
         ELSE AcceptedOf(Tail(items))

RECURSIVE AcceptedOfPages(_)
\* the acceptable postings of the fetched pages, in page order
AcceptedOfPages(h) ==
    IF h = <<>> THEN <<>>
    ELSE AcceptedOfPages(SubSeq(h, 1, Len(h) - 1)) \o AcceptedOf(h[Len(h)].items)

RECURSIVE Split(_, _)
\* the pieces of s between the occurrences of sep
Split(s, sep) ==
    LET cut == Index(s, sep)
    IN  IF cut = 0 THEN <<s>>
        ELSE <<SubSeq(s, 1, cut - 1)>>
                \o Split(SubSeq(s, cut + Len(sep), Len(s)), sep)

StartsWith(s, p) == Len(s) >= Len(p) /\ SubSeq(s, 1, Len(p)) = p

\* pagination has stopped normally and main is past the loop
Stopped == pc \in {"report", "compose", "sendmail", "sent", "returned", "exit"}

\* sendDailyJobEmail has been called
Called == pc \in {"compose", "sendmail", "sent", "returned", "exit"}

Composed == pc \in {"sendmail", "sent", "returned", "exit"}

FetchedOK(k) == hist[k].outcome = "ok"

NoHigherPage(k) ==
    /\ k = Len(hist)
    /\ Len(requested) = k
    /\ \A j \in 1..Len(hist) : hist[j].page <= hist[k].page

-----------------------------------------------------------------------------
\* C1: the Each callback appends the posting of the item to allJobs exactly
\* when its title contains "Software Engineer" and none of the six exclusion
\* terms; otherwise allJobs is left as it was.
C1_FilterIff ==
    [][(pc = "each" /\ idx <= Len(jobItems)) =>
         IF Acceptable(PostingOf(jobItems[idx]).Title)
         THEN allJobs' = Append(allJobs, PostingOf(jobItems[idx]))
         ELSE allJobs' = allJobs]_vars

\* an item whose title holds more than the bare phrase has been accepted
C1_Witness ==
    /\ pc = "each"
    /\ idx = 2
    /\ Len(allJobs) = 1
    /\ Len(allJobs[1].Title) > Len(<<"S","o","f","t","w","a","r","e"," ","E","n","g","i","n","e","e","r">>)
    /\ HasSubstring(allJobs[1].Title, <<"S","o","f","t","w","a","r","e"," ","E","n","g","i","n","e","e","r">>)

\* C2: a successfully fetched page with zero items ends pagination: it is the
\* last page fetched, the run is not fatal, and the postings accumulated
\* before it are what sendDailyJobEmail is given, once.
C2_EmptyPageStops ==
    \A k \in 1..Len(hist) :
        (FetchedOK(k) /\ hist[k].items = <<>>) =>
            /\ NoHigherPage(k)
            /\ pc # "fatal"
            /\ pc \in {"status", "parse", "empty"} \/ Stopped
            /\ allJobs = hist[k].before
            /\ Called => handed = <<hist[k].before>>
            /\ ~Called => handed = <<>>

\* an empty page after pages that contributed postings, and the hand-over
C2_Witness ==
    /\ Called
    /\ Len(hist) >= 2
    /\ FetchedOK(Len(hist))
    /\ hist[Len(hist)].items = <<>>
    /\ hist[Len(hist)].before # <<>>
    /\ handed = <<hist[Len(hist)].before>>

\* C3: a successfully fetched page with 1 to 9 items is the last page
\* fetched; pagination stops only after every item of it went through the
\* filter, the accepted ones appended in order, also when none is accepted.
C3_ShortPageStops ==
    /\ [](\A k \in 1..Len(hist) :
            (FetchedOK(k) /\ Len(hist[k].items) \in 1..9) =>
                /\ NoHigherPage(k)
                /\ pc # "fatal"
                /\ pc # "get"
                /\ Stopped => idx = Len(hist[k].items) + 1
                /\ pc \in {"each", "report"} =>
                     allJobs = hist[k].before
                                 \o AcceptedOf(SubSeq(hist[k].items, 1, idx - 1)))
    /\ [][Stopped => (allJobs' = allJobs /\ idx' = idx /\ hist' = hist)]_vars

\* a short page none of whose items is accepted has stopped the pagination
C3_Witness ==
    /\ Stopped
    /\ Len(hist) >= 2
    /\ FetchedOK(Len(hist))
    /\ Len(hist[Len(hist)].items) = 9
    /\ idx = 10
    /\ AcceptedOf(hist[Len(hist)].items) = <<>>
    /\ allJobs = hist[Len(hist)].before

\* C4: a successfully fetched page with 10 or more items never stops the
\* pagination, whatever number of its items was accepted: once its items are
\* processed the loop is at the fetch of page+1, and the next request made
\* is the one for page+1.
C4_FullPageContinues ==
    \A k \in 1..Len(hist) :
        (FetchedOK(k) /\ Len(hist[k].items) >= 10) =>
            /\ k = Len(hist) =>
                 /\ pc \in {"status", "parse", "empty", "each", "get"}
                 /\ pc = "get" => (page = hist[k].page + 1 /\ ENABLED Get)
                 /\ pc # "get" => page = hist[k].page
            /\ k < Len(hist) =>
                 /\ hist[k + 1].page = hist[k].page + 1
                 /\ requested[k + 1] = PageURL(hist[k].page + 1)

\* a full page that contributed no posting, followed by the next fetch
C4_Witness ==
    /\ Len(hist) >= 2
    /\ FetchedOK(1)
    /\ Len(hist[1].items) >= 10
    /\ AcceptedOf(hist[1].items) = <<>>
    /\ hist[2].before = <<>>
    /\ hist[2].page = 2

\* C5: a failed fetch (network error, status other than 200, parse failure)
\* is the last request of the run: the run ends fatally, no page is
\* requested twice, and sendDailyJobEmail is never called nor a mail
\* submitted.
C5_FetchFailureAborts ==
    /\ \A k \in 1..Len(hist) :
          hist[k].outcome \in {"neterr", "status", "parse"} =>
              /\ NoHigherPage(k)
              /\ pc \in {"status", "parse", "fatal"}
              /\ hist[k].outcome = "neterr" => pc = "fatal"
              /\ (hist[k].outcome = "parse" /\ pc = "parse") => ~resp.parses
              /\ sendCalls = 0
              /\ handed = <<>>
              /\ attempts = <<>>
    /\ \A j, k \in 1..Len(requested) : j # k => requested[j] # requested[k]
    /\ pc = "fatal" =>
          /\ ~ENABLED Next
          /\ hist # <<>>
          /\ hist[Len(hist)].outcome \in {"neterr", "status", "parse"}

\* the run has aborted on a later page after postings were accepted
C5_Witness ==
    /\ pc = "fatal"
    /\ Len(hist) >= 2
    /\ allJobs # <<>>
    /\ hist[Len(hist)].outcome = "status"
    /\ sendCalls = 0

C7_OneAttempt ==
    /\ sendCalls <= 1
    /\ Len(attempts) <= sendCalls
    /\ pc \in {"sent", "returned", "exit"} =>
          /\ sendCalls = 1
          /\ Len(attempts) = 1
          /\ attempts[1].rcpts = <<to>>
          /\ attempts[1].msg = message
    /\ pc \in {"returned", "exit"} =>
          /\ result = err
          /\ (result # "nil") <=> (err \in SendErrors)
    /\ pc = "exit" => ~ENABLED Next

\* main has returned after a failed submission
C7_Witness ==
    /\ pc = "exit"
    /\ err = "rejected"
    /\ result = "rejected"
    /\ Len(attempts) = 1

\* C8: no response body is open when a page is fetched, and at most one is
\* open at any point of the run.
C8_OneBodyOpen ==
    /\ Cardinality(openBodies) <= 1
    /\ pc = "get" => openBodies = {}

C10_PagesAndHandOver ==
    /\ [](/\ Len(requested) = Len(hist)
          /\ \A k \in 1..Len(hist) :
                /\ hist[k].page = k
                /\ requested[k] = baseURL \o Itoa(k)
          /\ Len(handed) <= 1
          /\ Len(handed) = sendCalls
          /\ handed # <<>> <=> Called
          /\ Stopped =>
                /\ hist # <<>>
                /\ \A k \in 1..Len(hist) :
                      /\ FetchedOK(k)
                      /\ (Len(hist[k].items) < 10) <=> (k = Len(hist))
          /\ pc = "report" => allJobs = AcceptedOfPages(hist)
          /\ pc = "compose" => handed = <<AcceptedOfPages(hist)>>)
    /\ [][Called => (handed' = handed /\ hist' = hist /\ requested' = requested)]_vars

\* a posting found on two pages has been handed over twice
C10_Witness ==
    /\ Called
    /\ Len(hist) >= 2
    /\ Len(hist[2].items) = 1
    /\ Len(handed) = 1
    /\ \E a, b \in 1..Len(handed[1]) :
          /\ a < b
          /\ a <= Len(hist[2].before)
          /\ b = Len(handed[1])
          /\ handed[1][a] = handed[1][b]

====
